---- MODULE Spec2Model ----
(***************************************************************************)
(* The skew-t notebook (skewt_notebook.ipynb) as a state machine: a kernel *)
(* namespace and one action per code cell, executed top to bottom.         *)
(*                                                                         *)
(* Numbers.  Prices are integers.  Every derived float is a fixed-point    *)
(* integer with FP units per 1.0, rounded by \div the way the float        *)
(* operations round.  A pandas cell that may be missing is a tuple: NaN    *)
(* is <<>>, the number v is <<v>>.                                         *)
(***************************************************************************)
EXTENDS Integers, Sequences, FiniteSets

\* ------------------------------------------------------------------ bounds
FP == 1000          \* fixed-point units per 1.0
HeadLen == 48       \* rows of the fixed part of a CSV price series
MaxTail == 4        \* at most this many free rows after the fixed part
MaxWeight == 1000   \* largest kernel or bias magnitude of a directly applied call
BasePrice == 10     \* price level of the CSV series

\* ------------------------------------------------------- program constants
n_samples == 1000
initial_price == 500
Sma20Window == 20
Sma50Window == 50
RsiWindow == 14
AtrWindow == 14
BbWindow == 20
BbDev == 2
ZWindow == 20

\* ------------------------------------------------------------ arithmetic
NaN == <<>>
Num(v) == <<v>>
IsNaN(x) == x = NaN

Abs(x) == IF x < 0 THEN -x ELSE x
Max(a, b) == IF a >= b THEN a ELSE b
Min(a, b) == IF a <= b THEN a ELSE b

RECURSIVE SqrtIn(_, _, _)
SqrtIn(n, lo, hi) ==
  IF lo >= hi THEN lo
  ELSE LET mid == (lo + hi + 1) \div 2
       IN IF mid * mid <= n THEN SqrtIn(n, mid, hi) ELSE SqrtIn(n, lo, mid - 1)
\* floor of the square root of n, 0 <= n < 2^31
ISqrt(n) == SqrtIn(n, 0, Min(n, 46340))

\* sum of s[t-w+1 .. t]
RECURSIVE RollSum(_, _, _)
RollSum(s, t, w) == IF w = 0 THEN 0 ELSE s[t] + RollSum(s, t - 1, w - 1)

SqSeq(s) == [i \in 1..Len(s) |-> s[i] * s[i]]

\* w * sum(x^2) - (sum x)^2 over the window ending at t: w^2 times the
\* population variance of the window
RollDev(s, sq, t, w) ==
  LET sm == RollSum(s, t, w) IN w * RollSum(sq, t, w) - sm * sm

\* Wilder / ewm(alpha = 1/w, adjust = False) recurrence over x[t..n], the
\* previous value being last; evaluated in blocks to keep the nesting shallow
RECURSIVE EwmIn(_, _, _, _, _)
EwmIn(x, w, last, t, stop) ==
  IF t > stop THEN <<>>
  ELSE LET v == ((w - 1) * last + x[t]) \div w
       IN <<v>> \o EwmIn(x, w, v, t + 1, stop)
RECURSIVE EwmFrom(_, _, _, _, _)
EwmFrom(x, n, w, last, t) ==
  IF t > n THEN <<>>
  ELSE LET blk == EwmIn(x, w, last, t, Min(t + 31, n))
       IN blk \o EwmFrom(x, n, w, blk[Len(blk)], t + 32)

\* close.diff(1): NaN on the first row
Diff(close) == [t \in 1..Len(close) |-> IF t = 1 THEN NaN ELSE Num(close[t] - close[t - 1])]

\* ------------------------------------------------- the 'ta' indicators
\* a moving average over a window centred on the day, reading the next day
sma_indicator_centred(close, window) ==
  [t \in 1..Len(close) |->
     IF t < window THEN NaN
     ELSE Num((RollSum(close, Min(t + 1, Len(close)), window) * FP) \div window)]

\* ta.trend.sma_indicator: rolling(window, min_periods = window).mean()
sma_indicator(close, window) ==
  [t \in 1..Len(close) |->
     IF t < window THEN NaN ELSE Num((RollSum(close, t, window) * FP) \div window)]

\* ta.momentum.rsi: Wilder averages of the gains and of the losses
rsi(close, window) ==
  LET diff == Diff(close)
      up == [t \in 1..Len(close) |->
               IF ~IsNaN(diff[t]) /\ diff[t][1] > 0 THEN diff[t][1] * FP ELSE 0]
      dn == [t \in 1..Len(close) |->
               IF ~IsNaN(diff[t]) /\ diff[t][1] < 0 THEN (-diff[t][1]) * FP ELSE 0]
      emaup == EwmFrom(up, Len(close), window, up[1], 1)
      emadn == EwmFrom(dn, Len(close), window, dn[1], 1)
  IN [t \in 1..Len(close) |->
        IF t < window THEN NaN
        ELSE IF emadn[t] = 0 THEN Num(100 * FP)
        ELSE LET rs == (emaup[t] * FP) \div emadn[t]
             IN Num(100 * FP - (100 * FP * FP) \div (FP + rs))]

\* ta.volatility.average_true_range: zero (not NaN) before the window is full
average_true_range(high, low, close, window) ==
  LET n == Len(close)
      tr == [t \in 1..n |->
               IF t = 1 THEN (high[1] - low[1]) * FP
               ELSE Max(high[t] - low[t],
                        Max(Abs(high[t] - close[t - 1]), Abs(low[t] - close[t - 1]))) * FP]
      first == RollSum(tr, window, window) \div window
      rest == EwmFrom(tr, n, window, first, window + 1)
  IN [t \in 1..n |->
        IF t < window THEN Num(0)
        ELSE IF t = window THEN Num(first)
        ELSE Num(rest[t - window])]

\* ta.volatility.BollingerBands(...).bollinger_pband():
\* (close - lband) / (hband - lband), the bands at mavg -/+ window_dev * mstd,
\* mstd the population (ddof = 0) standard deviation; 0/0 is NaN
bollinger_pband(close, window, window_dev) ==
  LET sq == SqSeq(close)
  IN [t \in 1..Len(close) |->
        IF t < window THEN NaN
        ELSE LET mavg == (RollSum(close, t, window) * FP) \div window
                 mstd == ISqrt(RollDev(close, sq, t, window) * ((FP * FP) \div (window * window)))
                 hband == mavg + window_dev * mstd
                 lband == mavg - window_dev * mstd
             IN IF hband = lband THEN NaN
                ELSE Num(((close[t] * FP - lband) * FP) \div (hband - lband))]

\* (close - rolling(20).mean()) / rolling(20).std(), std with ddof = 1
z_score_col(close, window) ==
  LET sq == SqSeq(close)
  IN [t \in 1..Len(close) |->
        IF t < window THEN NaN
        ELSE LET mean == (RollSum(close, t, window) * FP) \div window
                 std == ISqrt(RollDev(close, sq, t, window)
                                * ((FP * FP) \div (window * (window - 1))))
             IN IF std = 0 THEN NaN
                ELSE Num(((close[t] * FP - mean) * FP) \div std)]

\* -------------------------------------------------------------- frames
FeatureCols == <<"sma_20", "sma_50", "rsi_14", "atr_14", "bb_pct", "z_score">>
FeatureSet == {FeatureCols[i] : i \in 1..Len(FeatureCols)}

\* pd.DataFrame(): no rows and no columns
EmptyFrame == [index |-> "RangeIndex", columns |-> {}, rows |-> <<>>]
\* DataFrame.empty
FrameEmpty(df) == df.rows = <<>> \/ df.columns = {}

RowHasNaN(r) == \E c \in DOMAIN r : c # "date" /\ IsNaN(r[c])

\* compute_technical_features: six indicator columns, then dropna()
compute_technical_features(df, price_col) ==
  LET close == [t \in 1..Len(df.rows) |-> df.rows[t][price_col][1]]
      c_sma20 == sma_indicator(close, Sma20Window)
      c_sma50 == sma_indicator(close, Sma50Window)
      c_rsi == rsi(close, RsiWindow)
      c_atr == average_true_range(close, close, close, AtrWindow)
      c_bb == bollinger_pband(close, BbWindow, BbDev)
      c_z == z_score_col(close, ZWindow)
      full == [t \in 1..Len(close) |->
                 [date |-> df.rows[t].date, rolled_close |-> df.rows[t][price_col],
                  sma_20 |-> c_sma20[t], sma_50 |-> c_sma50[t], rsi_14 |-> c_rsi[t],
                  atr_14 |-> c_atr[t], bb_pct |-> c_bb[t], z_score |-> c_z[t]]]
  IN [index |-> df.index,
      columns |-> df.columns \cup FeatureSet,
      rows |-> SelectSeq(full, LAMBDA r : ~RowHasNaN(r))]

\* prepare_target with use_returns = False, the only way the notebook calls
\* it: the price column itself, row for row
prepare_target(df, price_col) == [i \in 1..Len(df.rows) |-> df.rows[i][price_col]]

\* ------------------------------------------------------- numpy statistics
\* sum of xs[lo..hi], halving the range
RECURSIVE SumRange(_, _, _)
SumRange(xs, lo, hi) ==
  IF lo > hi THEN 0
  ELSE IF lo = hi THEN xs[lo]
  ELSE LET mid == (lo + hi) \div 2
       IN SumRange(xs, lo, mid) + SumRange(xs, mid + 1, hi)

\* ndarray.mean() of fixed-point values
np_mean(xs) == SumRange(xs, 1, Len(xs)) \div Len(xs)

\* largest of xs[lo..hi] (xs non-negative), halving the range
RECURSIVE MaxRange(_, _, _)
MaxRange(xs, lo, hi) ==
  IF lo > hi THEN 0
  ELSE IF lo = hi THEN xs[lo]
  ELSE LET mid == (lo + hi) \div 2
       IN Max(MaxRange(xs, lo, mid), MaxRange(xs, mid + 1, hi))

\* ndarray.std(): sqrt(mean(abs(x - x.mean())**2)), ddof = 0. The deviations
\* are taken in units of s (1 unless a deviation exceeds 30.0) so that the
\* mean square stays within the integers of the model.
np_std(xs) ==
  LET m == np_mean(xs)
      n == Len(xs)
      dev == [i \in 1..n |-> Abs(xs[i] - m)]
      s == 1 + MaxRange(dev, 1, n) \div 30000
      sqdev == [i \in 1..n |-> ((dev[i] \div s) * (dev[i] \div s)) \div n]
  IN s * ISqrt(SumRange(sqdev, 1, n))

\* (y_raw - y_mean) / y_std, elementwise: 0/0 is NaN
Standardise(y, mean, std) ==
  [i \in 1..Len(y) |->
     IF std = 0 THEN NaN ELSE Num(((y[i] - mean) * FP) \div std)]

\* ndarray.size: of y_z (n, 1) and of X_raw (n, 6); np.array([]) has size 0
VectorSize(a) == Len(a)
MatrixSize(a) == Len(a) * Len(FeatureCols)

\* ------------------------------------------------------------ the network
hidden == 32

\* tf.keras.layers.Normalization() before adapt(): mean 0, variance 1
NormDefault ==
  [adapted |-> FALSE,
   mean |-> [i \in 1..Len(FeatureCols) |-> 0],
   std |-> [i \in 1..Len(FeatureCols) |-> FP]]

\* norm.adapt(X): per-feature mean and standard deviation of the rows
NormAdapt(X) ==
  [adapted |-> TRUE,
   mean |-> [i \in 1..Len(FeatureCols) |-> np_mean([r \in 1..Len(X) |-> X[r][i]])],
   std |-> [i \in 1..Len(FeatureCols) |-> np_std([r \in 1..Len(X) |-> X[r][i]])]]

\* the layer's call: (x - mean) / max(sqrt(var), epsilon); the smallest
\* positive fixed-point value stands for epsilon
NormCall(nrm, x) ==
  [i \in 1..Len(FeatureCols) |-> ((x[i] - nrm.mean[i]) * FP) \div Max(nrm.std[i], 1)]

Relu(z) == Max(z, 0)

\* float32 exp leaves the representable range: tf.exp(z) is exactly 0.0 for
\* z <= -104 (below half the smallest subnormal) and +inf for z >= 89
ExpUnderflow == -104
ExpOverflow == 89

\* tf.exp on a fixed-point argument.  A positive finite result e^z is
\* represented by its logarithm z.
Exp(z) ==
  IF z <= ExpUnderflow * FP THEN [cls |-> "zero", ln |-> 0]
  ELSE IF z >= ExpOverflow * FP THEN [cls |-> "inf", ln |-> 0]
  ELSE [cls |-> "pos", ln |-> z]

\* value > 0 for a result of Exp
Positive(v) == v.cls \in {"pos", "inf"}

\* e^(-u) in fixed point for u >= 0: e^(-q) by q multiplications, the
\* fraction by its Taylor series
RECURSIVE EPowNeg(_)
EPowNeg(q) == IF q = 0 THEN FP ELSE (EPowNeg(q - 1) * ((FP * 1000) \div 2718)) \div FP
ExpNeg(u) ==
  LET q == u \div FP
      r == u % FP
      t2 == (r * r) \div (2 * FP)
      t3 == (t2 * r) \div (3 * FP)
      t4 == (t3 * r) \div (4 * FP)
      frac == FP - r + t2 - t3 + t4
  IN IF q > 20 THEN 0 ELSE (EPowNeg(q) * frac) \div FP

\* tf.tanh: (1 - e^(-2|z|)) / (1 + e^(-2|z|)), with the sign of z
Tanh(z) ==
  LET t == ExpNeg(2 * Abs(z))
      m == ((FP - t) * FP) \div (FP + t)
  IN IF z < 0 THEN -m ELSE m

\* Dense(1) on the trunk's output: every unit of the trunk carries the
\* same value h, every kernel entry of the head is k
Dense1(k, b, h) == hidden * ((k * h) \div FP) + b

\* APCSkewT.call: (mu, sigma, skew, tail) for one feature row
Call(w, nrm, x) ==
  LET xn == NormCall(nrm, x)
      h1 == Relu((w.k1 * SumRange(xn, 1, Len(xn))) \div FP + w.b1)
      h2 == Relu(hidden * ((w.k2 * h1) \div FP) + w.b2)
  IN [mu |-> Dense1(w.k_mu, w.b_mu, h2),
      sigma |-> Exp(Dense1(w.k_s, w.b_s, h2)),
      skew |-> 5 * Tanh(Dense1(w.k_k, w.b_k, h2)),
      tail |-> Exp(Dense1(w.k_t, w.b_t, h2))]

\* np.cumsum, evaluated in blocks
RECURSIVE CumIn(_, _, _, _)
CumIn(x, last, t, stop) ==
  IF t > stop THEN <<>>
  ELSE <<last + x[t]>> \o CumIn(x, last + x[t], t + 1, stop)
RECURSIVE CumFrom(_, _, _, _)
CumFrom(x, n, last, t) ==
  IF t > n THEN <<>>
  ELSE LET blk == CumIn(x, last, t, Min(t + 31, n))
       IN blk \o CumFrom(x, n, blk[Len(blk)], t + 32)
np_cumsum(x) == CumFrom(x, Len(x), 0, 1)

\* ------------------------------------------------------------- the inputs
\* A CSV price series: a fixed part of HeadLen rows, flat or a zigzag, then
\* up to MaxTail rows drawn freely from two prices.
TailPrices == {BasePrice, BasePrice + 2}
Tails == UNION {[1..k -> TailPrices] : k \in 0..MaxTail}
HeadKinds == {"flat", "zigzag"}
HeadOf(kind) == [i \in 1..HeadLen |-> IF kind = "flat" THEN BasePrice ELSE BasePrice + (i % 3)]
SeriesOf(kind, tail) == HeadOf(kind) \o tail
Family == {SeriesOf(kind, tail) : kind \in HeadKinds, tail \in Tails}

\* the file's rows, dated 1..n, in date order or in reverse
CsvRows(series, order) ==
  LET n == Len(series)
  IN [i \in 1..n |->
        LET d == IF order = "asc" THEN i ELSE n + 1 - i
        IN [date |-> d, rolled_close |-> Num(series[d])]]
Files ==
  {[exists |-> TRUE, columns |-> cols, rows |-> CsvRows(series, order)] :
     cols \in SUBSET {"date", "rolled_close"}, series \in Family, order \in {"asc", "desc"}}
NoFile == [exists |-> FALSE, columns |-> {}, rows |-> <<>>]

\* np.random.normal(0, 5, n_samples) after np.random.seed(42): a fixed
\* stream of nonzero draws, here a repeating pattern of integer steps
RngStreams == {<<1, -1, -1, 1>>, <<2, -1, -2, 1>>, <<-1, -1, 1, 1>>}
Draws(stream, n) == [i \in 1..n |-> stream[((i - 1) % Len(stream)) + 1]]

\* --------------------------------------------------------------- the state
VARIABLES
  csv,          \* matif_osr_futs.csv: [exists, columns, rows], or NoFile
  rng,          \* the stream np.random.normal draws from
  stopOnError,  \* "Run All": the first raising cell ends the run
  pc,           \* the code cell to run next, 1..NCells; NCells + 1 when all
                \* have run; 0 when the run was stopped
  bound,        \* the names bound in the kernel's namespace
  raised,       \* the exceptions raised so far, <<[cell, exc]>>
  printed,      \* what print() wrote, in order
  figures,      \* the figures shown by plt.show()
  raw_df, df_4_params, y_raw, X_raw, y_mean, y_std, y_z, norm,
  weights,      \* the model's parameters
  n_models,     \* how many APCSkewT objects were constructed
  loss_log,     \* the epoch losses
  feeds,        \* per finished epoch, the sizes of the batches fed to step
  params,       \* mu, s, k, tau of the diagnostics forward pass, per row
  q,            \* the quantile fan, per row
  pit,          \* the PIT values, per row
  arg, ret      \* argument and result of a function applied on its own

vars == <<csv, rng, stopOnError, pc, bound, raised, printed, figures, raw_df,
          df_4_params, y_raw, X_raw, y_mean, y_std, y_z, norm, weights,
          n_models, loss_log, feeds, params, q, pit, arg, ret>>

envVars == <<csv, rng, stopOnError, arg, ret>>
dataVars == <<raw_df, df_4_params, y_raw, X_raw, y_mean, y_std, y_z, norm>>
trainVars == <<weights, n_models, loss_log, feeds>>
diagVars == <<params, q, pit>>

\* the code cells, top to bottom
CellImports == 1
CellFunctions == 2
CellData == 3
CellClass == 4
CellSkewT == 5
CellTraining == 6
CellCurve == 7
CellFan == 8
CellPit == 9
NCells == 9

Unbuilt == [built |-> FALSE]

\* a fresh kernel: nothing bound, nothing printed
FreshKernel ==
  /\ bound = {}
  /\ raised = <<>>
  /\ printed = <<>>
  /\ figures = <<>>
  /\ raw_df = EmptyFrame
  /\ df_4_params = EmptyFrame
  /\ y_raw = <<>>
  /\ X_raw = <<>>
  /\ y_mean = 0
  /\ y_std = 0
  /\ y_z = <<>>
  /\ norm = NormDefault
  /\ weights = Unbuilt
  /\ n_models = 0
  /\ loss_log = <<>>
  /\ feeds = <<>>
  /\ params = <<>>
  /\ q = <<>>
  /\ pit = <<>>

Init ==
  /\ \/ csv \in Files /\ rng = <<>>
     \/ csv = NoFile /\ rng \in RngStreams
  /\ stopOnError \in BOOLEAN
  /\ pc = 1
  /\ FreshKernel
  /\ arg = <<>>
  /\ ret = <<>>

NoExc == [exc |-> "", what |-> ""]
NameError(name) == [exc |-> "NameError", what |-> name]
KeyError(key) == [exc |-> "KeyError", what |-> key]

\* the cell at pc ends, normally (e = NoExc) or by raising e
EndCell(e) ==
  /\ raised' = IF e = NoExc THEN raised
               ELSE Append(raised, [cell |-> pc, exc |-> e.exc, what |-> e.what])
  /\ pc' = IF e # NoExc /\ stopOnError THEN 0 ELSE pc + 1

\* the first name of names that is not bound, "" when all are
RECURSIVE FirstUnbound(_, _)
FirstUnbound(names, b) ==
  IF names = <<>> THEN ""
  ELSE IF Head(names) \notin b THEN Head(names)
  ELSE FirstUnbound(Tail(names), b)

\* reading the names in order raises NameError at the first unbound one
ReadNames(names, b) ==
  LET missing == FirstUnbound(names, b)
  IN IF missing = "" THEN NoExc ELSE NameError(missing)

\* ------------------------------------------------------------ import cell
ImportNames == {"tf", "tfp", "np", "pd", "plt", "ta"}

\* "tfd, tfb = tfp.distributions, tfb.bijectors": the right-hand side is
\* evaluated, left to right, before either name is bound
ImportCell ==
  /\ pc = CellImports
  /\ LET b1 == bound \cup ImportNames
         e == ReadNames(<<"tfp", "tfb">>, b1)
     IN /\ bound' = IF e = NoExc THEN b1 \cup {"tfd", "tfb"} ELSE b1
        /\ EndCell(e)
  /\ UNCHANGED <<envVars, printed, figures, dataVars, trainVars, diagVars>>

\* the two defs; their annotations read pd
FunctionsCell ==
  /\ pc = CellFunctions
  /\ LET e == ReadNames(<<"pd">>, bound)
     IN /\ bound' = IF e = NoExc
                    THEN bound \cup {"prepare_target", "compute_technical_features"}
                    ELSE bound
        /\ EndCell(e)
  /\ UNCHANGED <<envVars, printed, figures, dataVars, trainVars, diagVars>>

\* -------------------------------------------------------------- data cell
IsSorted(rows) == \A i \in 1..(Len(rows) - 1) : rows[i].date <= rows[i + 1].date

\* DataFrame.sort_index() on distinct dates
sort_index(rows) ==
  IF IsSorted(rows) THEN rows
  ELSE LET all == {rows[i] : i \in 1..Len(rows)}
       IN [i \in 1..Len(rows) |->
             CHOOSE r \in all : Cardinality({x \in all : x.date < r.date}) = i - 1]

\* raw_df.set_index("date").sort_index()
set_index_sorted(df) ==
  [index |-> "date", columns |-> df.columns \ {"date"}, rows |-> sort_index(df.rows)]

\* the fallback frame: initial_price + cumsum(draws), one row per day
DummyFrame(stream) ==
  LET price_series == np_cumsum(Draws(stream, n_samples))
  IN [index |-> "RangeIndex", columns |-> {"date", "rolled_close"},
      rows |-> [i \in 1..n_samples |->
                  [date |-> i, rolled_close |-> Num(initial_price + price_series[i])]]]

\* a data cell without the except branch: a missing file leaves the cell
LoadData_NoFallback(file, stream) ==
  IF file.exists
  THEN LET read == [index |-> "RangeIndex", columns |-> file.columns, rows |-> file.rows]
       IN IF "date" \notin read.columns
          THEN [e |-> KeyError("date"), raw_df |-> read, printed |-> <<>>]
          ELSE [e |-> NoExc, raw_df |-> set_index_sorted(read),
                printed |-> <<"Data loaded successfully", "head">>]
  ELSE [e |-> [exc |-> "FileNotFoundError", what |-> "matif_osr_futs.csv"],
        raw_df |-> EmptyFrame, printed |-> <<>>]

\* the try/except of the data cell: the frame raw_df is left bound to, what
\* was printed, and the exception that leaves the cell, if any
LoadData(file, stream) ==
  IF file.exists
  THEN LET read == [index |-> "RangeIndex", columns |-> file.columns, rows |-> file.rows]
       IN IF "date" \notin read.columns
          THEN [e |-> KeyError("date"), raw_df |-> read, printed |-> <<>>]
          ELSE [e |-> NoExc, raw_df |-> set_index_sorted(read),
                printed |-> <<"Data loaded successfully", "head">>]
  ELSE [e |-> NoExc, raw_df |-> set_index_sorted(DummyFrame(stream)),
        printed |-> <<"Error: not found", "Creating dummy data", "head">>]

\* df_4_params[[...six columns...]].astype("float32").to_numpy()
FeatureMatrix(df) ==
  [i \in 1..Len(df.rows) |-> [j \in 1..Len(FeatureCols) |-> df.rows[i][FeatureCols[j]][1]]]

\* prepare_target(...).astype("float32").to_numpy()
TargetVector(df) ==
  LET t == prepare_target(df, "rolled_close")
  IN [i \in 1..Len(t) |-> t[i][1] * FP]

\* feature engineering, then target and feature preparation
PrepareData(raw) ==
  LET has == "rolled_close" \in raw.columns
      fe == IF has THEN compute_technical_features(raw, "rolled_close") ELSE EmptyFrame
      p1 == IF has THEN <<"shape", "head">> ELSE <<"Error: 'rolled_close' column not found">>
  IN IF ~FrameEmpty(fe)
     THEN LET y == TargetVector(fe)
              X == FeatureMatrix(fe)
              m == np_mean(y)
              sd == np_std(y)
          IN [df_4_params |-> fe, y_raw |-> y, X_raw |-> X, y_mean |-> m, y_std |-> sd,
              y_z |-> Standardise(y, m, sd), norm |-> NormAdapt(X),
              names |-> {"df_4_params", "y_raw", "X_raw", "y_mean", "y_std", "y_z", "norm"},
              printed |-> p1]
     ELSE [df_4_params |-> fe, y_raw |-> <<>>, X_raw |-> <<>>, y_mean |-> y_mean,
           y_std |-> y_std, y_z |-> <<>>, norm |-> NormDefault,
           names |-> {"df_4_params", "y_raw", "X_raw", "y_z", "norm"},
           printed |-> Append(p1, "Skipping target and feature preparation")]

DataCell ==
  /\ pc = CellData
  /\ LET ld == LoadData(csv, rng)
     IN /\ raw_df' = ld.raw_df
        /\ EndCell(ld.e)
        /\ IF ld.e # NoExc
           THEN /\ bound' = bound \cup {"raw_df"}
                /\ printed' = printed \o ld.printed
                /\ UNCHANGED <<df_4_params, y_raw, X_raw, y_mean, y_std, y_z, norm>>
           ELSE LET prep == PrepareData(ld.raw_df)
                IN /\ bound' = bound \cup {"raw_df"} \cup prep.names
                   /\ printed' = printed \o ld.printed \o prep.printed
                   /\ df_4_params' = prep.df_4_params
                   /\ y_raw' = prep.y_raw
                   /\ X_raw' = prep.X_raw
                   /\ y_mean' = prep.y_mean
                   /\ y_std' = prep.y_std
                   /\ y_z' = prep.y_z
                   /\ norm' = prep.norm
  /\ UNCHANGED <<envVars, figures, trainVars, diagVars>>

\* class APCSkewT: the class statement reads tf; norm is read by __init__
ClassCell ==
  /\ pc = CellClass
  /\ LET e == ReadNames(<<"tf">>, bound)
     IN /\ bound' = IF e = NoExc THEN bound \cup {"APCSkewT"} ELSE bound
        /\ EndCell(e)
  /\ UNCHANGED <<envVars, printed, figures, dataVars, trainVars, diagVars>>

\* def skew_t: tfd and tfb are read when it is called, not here
SkewTCell ==
  /\ pc = CellSkewT
  /\ bound' = bound \cup {"skew_t"}
  /\ EndCell(NoExc)
  /\ UNCHANGED <<envVars, printed, figures, dataVars, trainVars, diagVars>>

\* ---------------------------------------------------------- training cell
Epochs == 30
BatchSize == 64

\* Dataset.batch(BatchSize) over n rows: the batch sizes, the last one short
BatchSizes(n) ==
  [b \in 1..((n + BatchSize - 1) \div BatchSize) |->
     IF b * BatchSize <= n THEN BatchSize ELSE n - (b - 1) * BatchSize]

\* Glorot-uniform kernels, one draw g for every kernel entry; zero biases
\* (constant_initializer(np.log(1.)) is zero too)
GlorotDraws == {-300, 300}
InitWeights(g) ==
  [built |-> TRUE, k1 |-> g, b1 |-> 0, k2 |-> g, b2 |-> 0,
   k_mu |-> g, b_mu |-> 0, k_s |-> g, b_s |-> 0,
   k_k |-> g, b_k |-> 0, k_t |-> g, b_t |-> 0,
   updates |-> 0, nan |-> FALSE]

\* a call that creates the variables anew every time
Build_Always(w, g) == InitWeights(g)

\* the first call of the model creates its variables
Build(w, g) == IF w.built THEN w ELSE InitWeights(g)

\* model(X): the parameter tuple of every row
Forward(w, nrm, X) == [i \in 1..Len(X) |-> Call(w, nrm, X[i])]

\* skew_t(mu, sigma, skew, tail) reads tfd, then tfb
SkewT(b) == ReadNames(<<"tfd", "tfb">>, b)

\* opt.apply_gradients after one batch: one more update of every trainable
\* variable; a NaN target makes the loss, the gradients and the variables NaN
apply_gradients(w, lossNaN) ==
  [w EXCEPT !.updates = w.updates + 1, !.nan = w.nan \/ lossNaN]

RECURSIVE TrainBatches(_, _, _)
TrainBatches(w, lossNaN, nb) ==
  IF nb = 0 THEN w ELSE TrainBatches(apply_gradients(w, lossNaN), lossNaN, nb - 1)

\* the body of "if X_raw.size > 0 and y_z.size > 0": the loop stops at the
\* first step that raises
RunTraining(b, w0, X, yz) ==
  LET e == SkewT(b)
      sizes == BatchSizes(Len(X))
      lossNaN == \E i \in 1..Len(yz) : IsNaN(yz[i])
  IN IF e # NoExc
     THEN [e |-> e, weights |-> w0, loss_log |-> <<>>, feeds |-> <<>>, printed |-> <<>>]
     ELSE [e |-> NoExc,
           weights |-> TrainBatches(w0, lossNaN, Epochs * Len(sizes)),
           loss_log |-> [ep \in 1..Epochs |-> [epoch |-> ep, nan |-> lossNaN]],
           feeds |-> [ep \in 1..Epochs |-> sizes],
           printed |-> [ep \in 1..Epochs |-> "epoch"]]

TrainingCell ==
  /\ pc = CellTraining
  /\ LET e0 == ReadNames(<<"X_raw", "y_z">>, bound)
     IN IF e0 # NoExc
        THEN /\ EndCell(e0)
             /\ UNCHANGED <<bound, printed, trainVars>>
        ELSE IF MatrixSize(X_raw) > 0 /\ VectorSize(y_z) > 0
        THEN LET e1 == ReadNames(<<"tf", "APCSkewT", "norm">>, bound)
             IN IF e1 # NoExc
                THEN /\ EndCell(e1)
                     /\ bound' = bound \cup {"ds"}
                     /\ UNCHANGED <<printed, trainVars>>
                ELSE \E g \in GlorotDraws :
                       LET b1 == bound \cup {"ds", "model", "opt", "loss_log", "step", "ep"}
                           run == RunTraining(b1, Build(Unbuilt, g), X_raw, y_z)
                       IN /\ EndCell(run.e)
                          /\ bound' = IF run.e = NoExc THEN b1 \cup {"ll"} ELSE b1
                          /\ n_models' = n_models + 1
                          /\ weights' = run.weights
                          /\ loss_log' = run.loss_log
                          /\ feeds' = run.feeds
                          /\ printed' = printed \o run.printed
        ELSE /\ EndCell(NoExc)
             /\ bound' = bound \cup {"loss_log"}
             /\ loss_log' = <<>>
             /\ printed' = Append(printed, "Skipping training loop")
             /\ UNCHANGED <<weights, n_models, feeds>>
  /\ UNCHANGED <<envVars, figures, dataVars, diagVars>>

\* ------------------------------------------------------- diagnostics cells
CurveCell ==
  /\ pc = CellCurve
  /\ LET e == ReadNames(<<"plt", "loss_log">>, bound)
     IN /\ EndCell(e)
        /\ figures' = IF e = NoExc
                      THEN Append(figures, [name |-> "training_curve", points |-> Len(loss_log)])
                      ELSE figures
  /\ UNCHANGED <<envVars, bound, printed, dataVars, trainVars, diagVars>>

Percentiles == <<100, 250, 500, 750, 900>>
\* StudentT(df = 3).quantile at the five percentiles, in thousandths
StudentT3Quantile == <<-1638, -765, 0, 765, 1638>>

\* dist.quantile(p) * y_std + y_mean for one row: the value
\* y_mean + y_std * (mu + sigma * SinhArcsinh(skew, tail)(z)), kept unevaluated
Quantile(prm, i, mean, std) ==
  [z |-> StudentT3Quantile[i], p |-> Percentiles[i], prm |-> prm, y_mean |-> mean, y_std |-> std]

\* a <= b for two quantiles of one row: Shift, Scale and SinhArcsinh are
\* increasing when scale and tail-weight are positive and finite, so the
\* order is that of the base quantiles; a zero scale or a zero y_std makes
\* all five equal; an infinite scale or tail-weight gives NaN at the median
QuantileLeq(a, b) ==
  /\ a.prm = b.prm
  /\ a.prm.tail.cls = "pos"
  /\ a.prm.sigma.cls \in {"pos", "zero"}
  /\ a.y_std >= 0
  /\ (a.prm.sigma.cls = "pos" /\ a.y_std > 0) => a.z <= b.z

FanCell ==
  /\ pc = CellFan
  /\ LET e0 == ReadNames(<<"X_raw", "y_z", "df_4_params">>, bound)
         guard == MatrixSize(X_raw) > 0 /\ VectorSize(y_z) > 0 /\ ~FrameEmpty(df_4_params)
     IN IF e0 # NoExc
        THEN /\ EndCell(e0)
             /\ UNCHANGED <<bound, printed, figures, weights, diagVars>>
        ELSE IF ~guard
        THEN /\ EndCell(NoExc)
             /\ printed' = Append(printed, "Skipping quantile fan plot")
             /\ UNCHANGED <<bound, figures, weights, diagVars>>
        ELSE LET e1 == ReadNames(<<"model">>, bound)
                 b1 == bound \cup {"mu", "s", "k", "tau"}
                 e2 == SkewT(b1)
                 e3 == ReadNames(<<"tf", "y_std", "y_mean">>, b1 \cup {"dist"})
                 e4 == IF "date" \in df_4_params.columns THEN NoExc ELSE KeyError("date")
             IN IF e1 # NoExc
                THEN /\ EndCell(e1)
                     /\ UNCHANGED <<bound, printed, figures, weights, diagVars>>
                ELSE \E g \in GlorotDraws :
                  LET w == Build(weights, g)
                      prm == Forward(w, norm, X_raw)
                      qq == [i \in 1..Len(prm) |->
                               [j \in 1..Len(Percentiles) |-> Quantile(prm[i], j, y_mean, y_std)]]
                  IN /\ weights' = w
                     /\ params' = prm
                     /\ printed' = printed
                     /\ pit' = pit
                     /\ IF e2 # NoExc
                        THEN /\ EndCell(e2)
                             /\ bound' = b1
                             /\ UNCHANGED <<q, figures>>
                        ELSE IF e3 # NoExc
                        THEN /\ EndCell(e3)
                             /\ bound' = b1 \cup {"dist"}
                             /\ UNCHANGED <<q, figures>>
                        ELSE /\ EndCell(e4)
                             /\ bound' = b1 \cup {"dist", "q"}
                             /\ q' = qq
                             /\ figures' = IF e4 = NoExc
                                           THEN Append(figures, [name |-> "quantile_fan",
                                                                 points |-> Len(qq)])
                                           ELSE figures
  /\ UNCHANGED <<envVars, dataVars, n_models, loss_log, feeds>>

PitCell ==
  /\ pc = CellPit
  /\ LET e0 == ReadNames(<<"X_raw", "y_z", "df_4_params">>, bound)
         guard == MatrixSize(X_raw) > 0 /\ VectorSize(y_z) > 0 /\ ~FrameEmpty(df_4_params)
         e1 == ReadNames(<<"dist">>, bound)
     IN IF e0 # NoExc
        THEN /\ EndCell(e0)
             /\ UNCHANGED <<bound, printed, figures, pit>>
        ELSE IF ~guard
        THEN /\ EndCell(NoExc)
             /\ printed' = Append(printed, "Skipping PIT histogram")
             /\ UNCHANGED <<bound, figures, pit>>
        ELSE IF e1 # NoExc
        THEN /\ EndCell(e1)
             /\ UNCHANGED <<bound, printed, figures, pit>>
        ELSE /\ EndCell(NoExc)
             /\ bound' = bound \cup {"pit"}
             /\ pit' = [i \in 1..Len(y_z) |-> [prm |-> params[i], at |-> y_z[i]]]
             /\ figures' = Append(figures, [name |-> "pit_histogram", points |-> Len(y_z)])
             /\ printed' = printed
  /\ UNCHANGED <<envVars, dataVars, trainVars, params, q>>

Next ==
  \/ ImportCell
  \/ FunctionsCell
  \/ DataCell
  \/ ClassCell
  \/ SkewTCell
  \/ TrainingCell
  \/ CurveCell
  \/ FanCell
  \/ PitCell

Spec == Init /\ [][Next]_vars

\* ------------------------------------------ APCSkewT.call applied directly
\* every kernel entry and bias of the heads from {-MaxWeight, 0, MaxWeight},
\* the trunk passing its input on, three feature rows
HeadVals == {-MaxWeight, 0, MaxWeight}
CallWeights ==
  {[built |-> TRUE, k1 |-> MaxWeight, b1 |-> 0, k2 |-> MaxWeight, b2 |-> 0,
    k_mu |-> MaxWeight, b_mu |-> 0, k_s |-> ks, b_s |-> bs, k_k |-> kk, b_k |-> bk,
    k_t |-> kt, b_t |-> bt, updates |-> 0, nan |-> FALSE] :
     ks \in HeadVals, bs \in HeadVals, kk \in HeadVals, bk \in HeadVals,
     kt \in HeadVals, bt \in HeadVals}
CallRows == {[j \in 1..Len(FeatureCols) |-> IF j = 1 THEN v ELSE 0] : v \in {0, FP \div 10, FP \div 5}}

InitCall ==
  /\ arg \in {[w |-> w, x |-> x] : w \in CallWeights, x \in CallRows}
  /\ ret = <<>>
  /\ csv = NoFile /\ rng = <<>> /\ stopOnError = FALSE /\ pc = 0
  /\ FreshKernel

ApplyCall ==
  /\ ret = <<>>
  /\ ret' = <<Call(arg.w, NormDefault, arg.x)>>
  /\ UNCHANGED <<csv, rng, stopOnError, arg, pc, bound, raised, printed, figures,
                 dataVars, trainVars, diagVars>>

SpecCall == InitCall /\ [][ApplyCall]_vars

\* ------------------------------ compute_technical_features applied directly
\* two series of the family that agree on the days up to t
FrameOf(series) ==
  [index |-> "date", columns |-> {"rolled_close"}, rows |-> CsvRows(series, "asc")]

InitFeatures ==
  /\ \E a \in Family, b \in Family, t \in Sma50Window..(HeadLen + MaxTail) :
       /\ t <= Len(a) /\ t <= Len(b)
       /\ SubSeq(a, 1, t) = SubSeq(b, 1, t)
       /\ arg = [a |-> a, b |-> b, t |-> t]
  /\ ret = <<>>
  /\ csv = NoFile /\ rng = <<>> /\ stopOnError = FALSE /\ pc = 0
  /\ FreshKernel

ApplyFeatures ==
  /\ ret = <<>>
  /\ ret' = <<compute_technical_features(FrameOf(arg.a), "rolled_close").rows,
              compute_technical_features(FrameOf(arg.b), "rolled_close").rows>>
  /\ UNCHANGED <<csv, rng, stopOnError, arg, pc, bound, raised, printed, figures,
                 dataVars, trainVars, diagVars>>

SpecFeatures == InitFeatures /\ [][ApplyFeatures]_vars

\* ------------------------------------------------------------- properties
RaisedIn(cell) == \E i \in 1..Len(raised) : raised[i].cell = cell
RaisedFrom(cell) == \E i \in 1..Len(raised) : raised[i].cell >= cell
Ran(cell) == pc > cell
Printed(msg) == \E i \in 1..Len(printed) : printed[i] = msg
FigureNames == {figures[i].name : i \in 1..Len(figures)}
\* the data-availability guard of the training and diagnostics cells
DataAvailable ==
  /\ {"X_raw", "y_z", "df_4_params"} \subseteq bound
  /\ MatrixSize(X_raw) > 0 /\ VectorSize(y_z) > 0 /\ ~FrameEmpty(df_4_params)

\* C1: every tuple APCSkewT.call returns has scale > 0, tail-weight > 0 and
\* -5 <= skew <= 5, whatever the feature row and the weights.
C1_CallInRange ==
  ret # <<>> =>
    /\ Positive(ret[1].sigma)
    /\ Positive(ret[1].tail)
    /\ -5 * FP <= ret[1].skew /\ ret[1].skew <= 5 * FP

\* C2: with the CSV file absent the data cell does not raise: it prints the
\* warning, binds raw_df to n_samples daily rows indexed by date with a
\* rolled_close column, feature engineering leaves a non-empty frame, target
\* preparation runs, and the training cell takes its data branch.
C2_FallbackOnMissingFile ==
  (csv = NoFile /\ Ran(CellData)) =>
    /\ ~RaisedIn(CellData)
    /\ Printed("Error: not found") /\ Printed("Creating dummy data")
    /\ Len(raw_df.rows) = n_samples
    /\ raw_df.index = "date"
    /\ "rolled_close" \in raw_df.columns
    /\ \A i \in 1..Len(raw_df.rows) : raw_df.rows[i].date = i
    /\ ~FrameEmpty(df_4_params)
    /\ {"y_raw", "X_raw", "y_mean", "y_std", "y_z", "norm"} \subseteq bound
    /\ Len(y_z) = Len(df_4_params.rows) /\ Len(X_raw) = Len(df_4_params.rows)
    /\ norm.adapted
    /\ Ran(CellTraining) => (n_models = 1 /\ "model" \in bound)
C2_Witness ==
  /\ csv = NoFile /\ Ran(CellTraining)
  /\ Len(df_4_params.rows) = n_samples - Sma50Window + 1
  /\ n_models = 1

\* C3: for a present CSV with a missing column, or whose feature frame is
\* empty, no cell from the data cell on raises, the failure is printed and
\* the stages that need data are skipped.
C3_FailuresAreSkipped ==
  (/\ csv.exists /\ Ran(CellData)
   /\ \/ "date" \notin csv.columns
      \/ "rolled_close" \notin csv.columns
      \/ FrameEmpty(df_4_params)) =>
    /\ ~RaisedFrom(CellData)
    /\ Printed("Error: 'rolled_close' column not found")
         \/ Printed("Skipping target and feature preparation")
    /\ Ran(CellTraining) => (n_models = 0 /\ Printed("Skipping training loop"))
    /\ Ran(CellFan) => Printed("Skipping quantile fan plot")
    /\ Ran(CellPit) => Printed("Skipping PIT histogram")

\* C4: in every training pair, x is the feature vector of a day t and y is
\* the closing price of day t + 1.
C4_TargetIsNextDay ==
  (Ran(CellData) /\ "y_raw" \in bound) =>
    \A i \in 1..Len(y_raw) :
      LET t == df_4_params.rows[i].date
      IN /\ X_raw[i] = FeatureMatrix(df_4_params)[i]
         /\ t + 1 <= Len(raw_df.rows)
         /\ y_raw[i] = raw_df.rows[t + 1].rolled_close[1] * FP

\* C5: compute_technical_features is causal.  Each retained row carries
\* exactly the six indicator values; two series that agree up to day t give
\* the same row (or both no row) on every day up to t; no row is retained
\* before the longest window is full.
RowOn(rows, day) == {rows[i] : i \in {j \in 1..Len(rows) : rows[j].date = day}}
C5_Causal ==
  ret # <<>> =>
    /\ \A day \in 1..arg.t : RowOn(ret[1], day) = RowOn(ret[2], day)
    /\ \A k \in 1..2 : \A i \in 1..Len(ret[k]) :
         /\ DOMAIN ret[k][i] \ {"date", "rolled_close"} = FeatureSet
         /\ \A c \in FeatureSet : ~IsNaN(ret[k][i][c])
         /\ ret[k][i].date >= Sma50Window
C5_Witness ==
  /\ ret # <<>>
  /\ RowOn(ret[1], arg.t) # {}
  /\ Len(arg.a) > arg.t /\ Len(arg.b) > arg.t
  /\ arg.a[arg.t + 1] # arg.b[arg.t + 1]

\* C6: the model's parameters change only in the training cell; the
\* diagnostics cells (curve, fan, PIT) leave them as they are.
C6_WeightsFrame ==
  [][/\ weights' # weights => pc = CellTraining
     /\ pc \in {CellCurve, CellFan, CellPit} => weights' = weights]_vars
C6_Witness ==
  /\ Ran(CellFan)
  /\ weights.built
  /\ Len(params) = Len(X_raw) /\ Len(params) > 0

\* C7: for every day of the in-sample window the diagnostics stage computes
\* five quantiles, monotonic in the percentile.
C7_QuantilesMonotone ==
  (Ran(CellFan) /\ DataAvailable) =>
    /\ "q" \in bound
    /\ Len(q) = Len(df_4_params.rows)
    /\ \A d \in 1..Len(q) : \A i \in 1..(Len(Percentiles) - 1) :
         QuantileLeq(q[d][i], q[d][i + 1])

\* C8: with a non-empty feature frame and a constructed model, the run shows
\* all three figures and none of the three figure cells raises.
C8_AllFigures ==
  (Ran(CellPit) /\ DataAvailable /\ n_models = 1) =>
    /\ FigureNames = {"training_curve", "quantile_fan", "pit_histogram"}
    /\ ~RaisedFrom(CellCurve)

\* C9: with data the model is built once and trained for Epochs epochs, each
\* feeding every row once in batches of at most BatchSize, loss_log ending
\* with Epochs entries, one printed each; without data loss_log is empty.
C9_TrainedOnce ==
  Ran(CellTraining) =>
    /\ "loss_log" \in bound
    /\ IF DataAvailable
       THEN /\ n_models = 1
            /\ Len(loss_log) = Epochs
            /\ \A ep \in 1..Len(loss_log) : loss_log[ep].epoch = ep
            /\ Len(feeds) = Epochs
            /\ \A ep \in 1..Len(feeds) :
                 /\ SumRange(feeds[ep], 1, Len(feeds[ep])) = Len(X_raw)
                 /\ \A b \in 1..Len(feeds[ep]) : feeds[ep][b] <= BatchSize
            /\ Cardinality({i \in 1..Len(printed) : printed[i] = "epoch"}) = Epochs
            /\ weights.built /\ weights.updates = Epochs * Len(BatchSizes(Len(X_raw)))
       ELSE loss_log = <<>> /\ n_models = 0

\* C10: whenever target preparation runs, y_std is strictly positive and
\* every standardised target is a number.
C10_StdPositive ==
  (Ran(CellData) /\ "y_std" \in bound) =>
    /\ y_std > 0
    /\ \A i \in 1..Len(y_z) : ~IsNaN(y_z[i])

\* C11: once the import cell has run, tfd and tfb are both bound, and no name
\* read by the import cell or by skew_t is read before it has been bound (no
\* NameError on tfp, tfd or tfb is ever raised).
C11_ImportBindsNames ==
  /\ (Ran(CellImports) \/ RaisedIn(CellImports)) => {"tfd", "tfb"} \subseteq bound
  /\ \A i \in 1..Len(raised) :
       ~(raised[i].exc = "NameError" /\ raised[i].what \in {"tfp", "tfd", "tfb"})

====
